---- MODULE Spec2Model ----
(***************************************************************************)
(* A model of the reddit-api-client package: configuration loading         *)
(* (config.py), the read-only client (api_client.py) and the three example *)
(* scripts (examples/*.py).                                                *)
(*                                                                         *)
(* One behaviour is one run of a caller: one of the three example scripts, *)
(* or a library user that loads the configuration, constructs the client   *)
(* and then calls its public methods in any order.  The wrapped library    *)
(* (PRAW) is the environment: what a listing yields, and whether a call    *)
(* raises, is chosen nondeterministically.                                 *)
(***************************************************************************)
EXTENDS Integers, Sequences, FiniteSets, TLC

VARIABLES
  env,           \* the process environment after load_dotenv
  mode,          \* which caller runs: an example script or a library user
  pc,            \* the caller's position
  config,        \* the Config from_env returned, PyNone before
  client,        \* the RedditClient (its config and its praw session)
  args,          \* the script's subreddit_name and query
  called,        \* a fetch method of the client has been called
  info,          \* the stats script's subreddit info
  last,          \* the latest client call: operation, input, outcome
  fetch_raised,  \* a fetch of a script raised
  report_raised, \* the statement of a script's try block, after the fetch,
                 \* that raised: "display" (a summary print), "open", "dump"
                 \* or "print" (the last print); "no" if none
  output_file,   \* the JSON file the script created, PyNone if none
  printed        \* the status lines printed

vars == <<env, mode, pc, config, client, args, called, info, last,
          fetch_raised, report_raised, output_file, printed>>

(***************************************************************************)
(* Bounds of the model.                                                    *)
(***************************************************************************)
MaxBatch == 2      \* longest batch of submissions a listing yields
MaxListing == 3    \* longest comment listing

(***************************************************************************)
(* Python values.  Optional values are tagged records so that None, the    *)
(* empty string, 0 and objects can be told apart and tested for truth the  *)
(* way Python does.                                                        *)
(***************************************************************************)
PyNone == [t |-> "NoneType"]
PyStr(s) == [t |-> "str", v |-> s]
PyInt(i) == [t |-> "int", v |-> i]
Redditor(n) == [t |-> "Redditor", name |-> n]

\* bool(x): None, "" and 0 are false; an object without __bool__/__len__
\* (a praw Redditor) is true.
Truthy(x) ==
  CASE x.t = "NoneType" -> FALSE
    [] x.t = "str" -> x.v # ""
    [] x.t = "int" -> x.v # 0
    [] OTHER -> TRUE

\* x and y
PyAnd(x, y) == IF Truthy(x) THEN y ELSE x

\* str(x)
PyToStr(x) ==
  CASE x.t = "NoneType" -> "None"
    [] x.t = "str" -> x.v
    [] x.t = "Redditor" -> x.name
    [] OTHER -> "object"

\* os.getenv(name, default)
getenv(e, name, default) == IF e[name] = PyNone THEN default ELSE e[name]

Return(v) == [raised |-> FALSE, value |-> v]
Raise(err) == [raised |-> TRUE, error |-> err]

(***************************************************************************)
(* config.py                                                               *)
(***************************************************************************)
EnvNames == {"REDDIT_CLIENT_ID", "REDDIT_CLIENT_SECRET", "REDDIT_USER_AGENT",
             "REDDIT_USERNAME", "REDDIT_PASSWORD"}

DEFAULT_USER_AGENT == PyStr("reddit-api-client/1.0")

\* Config.from_env with the `or` of its credential test turned into `and`.
from_env_and(e) ==
  LET client_id == getenv(e, "REDDIT_CLIENT_ID", PyNone)
      client_secret == getenv(e, "REDDIT_CLIENT_SECRET", PyNone)
      user_agent == getenv(e, "REDDIT_USER_AGENT", DEFAULT_USER_AGENT)
  IN IF ~Truthy(client_id) /\ ~Truthy(client_secret)
     THEN Raise("ValueError")
     ELSE Return([client_id |-> client_id,
                  client_secret |-> client_secret,
                  user_agent |-> user_agent,
                  username |-> getenv(e, "REDDIT_USERNAME", PyNone),
                  password |-> getenv(e, "REDDIT_PASSWORD", PyNone)])

\* Config.from_env: e is the environment after load_dotenv.
from_env(e) ==
  LET client_id == getenv(e, "REDDIT_CLIENT_ID", PyNone)
      client_secret == getenv(e, "REDDIT_CLIENT_SECRET", PyNone)
      user_agent == getenv(e, "REDDIT_USER_AGENT", DEFAULT_USER_AGENT)
  IN IF ~Truthy(client_id) \/ ~Truthy(client_secret)
     THEN Raise("ValueError")
     ELSE Return([client_id |-> client_id,
                  client_secret |-> client_secret,
                  user_agent |-> user_agent,
                  username |-> getenv(e, "REDDIT_USERNAME", PyNone),
                  password |-> getenv(e, "REDDIT_PASSWORD", PyNone)])

\* Config.is_authenticated with `and` turned into `or`.
is_authenticated_or(c) ==
  Truthy(IF Truthy(c.username) THEN c.username ELSE c.password)

\* Config.is_authenticated: bool(self.username and self.password)
is_authenticated(c) == Truthy(PyAnd(c.username, c.password))

(***************************************************************************)
(* api_client.py: construction                                             *)
(***************************************************************************)
\* praw.Reddit(...): a session given a username and a password is created
\* writable, one given neither is created read-only.
praw_Reddit(client_id, client_secret, user_agent, username, password) ==
  [client_id |-> client_id, client_secret |-> client_secret,
   user_agent |-> user_agent, username |-> username, password |-> password,
   read_only |-> ~(Truthy(username) /\ Truthy(password))]

\* RedditClient.__init__ without the final `self.reddit.read_only = True`.
RedditClient_init_noflag(c) ==
  [config |-> c,
   reddit |-> IF is_authenticated(c)
              THEN praw_Reddit(c.client_id, c.client_secret, c.user_agent,
                               c.username, c.password)
              ELSE praw_Reddit(c.client_id, c.client_secret, c.user_agent,
                               PyNone, PyNone)]

\* RedditClient.__init__
RedditClient_init(c) ==
  LET reddit == IF is_authenticated(c)
                THEN praw_Reddit(c.client_id, c.client_secret, c.user_agent,
                                 c.username, c.password)
                ELSE praw_Reddit(c.client_id, c.client_secret, c.user_agent,
                                 PyNone, PyNone)
  IN [config |-> c, reddit |-> [reddit EXCEPT !.read_only = TRUE]]

(***************************************************************************)
(* What the wrapped library hands back.  A submission and a comment carry  *)
(* the attributes the formatters read; of those, the model keeps the ones  *)
(* the client and the scripts compute with (title, author, score,          *)
(* num_comments, id) and leaves out the others, which are copied through   *)
(* unchanged.  A title is a text: its code points.                         *)
(***************************************************************************)
CommentCounts == {0, 3}

Submission(title, author, score, num_comments) ==
  [t |-> "Submission", title |-> title, author |-> author, score |-> score,
   num_comments |-> num_comments]

\* "Hi" and "Ol\xe9"
TITLE_ASCII == <<72, 105>>
TITLE_LATIN == <<79, 108, 233>>

Submissions ==
  { Submission(TITLE_ASCII, PyNone, -1, 0),
    Submission(TITLE_LATIN, Redditor("alice"), 2, 3) }

MoreComments == [t |-> "MoreComments", count |-> 1]

Comments ==
  { [t |-> "Comment", id |-> 1, author |-> PyNone, body |-> "b1"],
    [t |-> "Comment", id |-> 2, author |-> Redditor("alice"), body |-> "b2"] }

CommentEntries == Comments \cup {MoreComments}

SeqsUpTo(S, n) == UNION { [1..k -> S] : k \in 0..n }

Batches == SeqsUpTo(Submissions, MaxBatch)
Listings == SeqsUpTo(CommentEntries, MaxListing)
Limits == {PyNone} \cup { PyInt(i) : i \in 0..MaxListing }
Times == {1, 2}

\* A subreddit's title is a text ("Python", "Caf\xe9", "Learn");
\* its counts are numbers, and the library has None for a count the site
\* does not report.
Subreddits ==
  { [display_name |-> "python", title |-> <<80, 121, 116, 104, 111, 110>>,
     subscribers |-> PyInt(5), active_user_count |-> PyInt(1),
     over18 |-> FALSE],
    [display_name |-> "cafe", title |-> <<67, 97, 102, 233>>,
     subscribers |-> PyInt(5), active_user_count |-> PyInt(1),
     over18 |-> FALSE],
    [display_name |-> "learnpython", title |-> <<76, 101, 97, 114, 110>>,
     subscribers |-> PyInt(0), active_user_count |-> PyNone,
     over18 |-> TRUE] }

\* hasattr(obj, name)
hasattr(obj, name) == name \in DOMAIN obj

(***************************************************************************)
(* api_client.py: formatting                                               *)
(***************************************************************************)
DELETED == "[deleted]"

\* _format_submission with the null-author test dropped.
format_submission_nocheck(submission) ==
  [title |-> submission.title,
   author |-> PyToStr(submission.author),
   score |-> submission.score,
   num_comments |-> submission.num_comments]

\* RedditClient._format_submission
format_submission(submission) ==
  [title |-> submission.title,
   author |-> IF Truthy(submission.author)
              THEN PyToStr(submission.author) ELSE DELETED,
   score |-> submission.score,
   num_comments |-> submission.num_comments]

\* RedditClient._format_comment
format_comment(comment) ==
  [id |-> comment.id,
   author |-> IF Truthy(comment.author)
              THEN PyToStr(comment.author) ELSE DELETED,
   body |-> comment.body]

(***************************************************************************)
(* api_client.py: post listings.  `batch` is what the listing generator    *)
(* of the library (hot, new, top, search) yields for the given arguments.  *)
(***************************************************************************)
format_all(batch) == [i \in 1..Len(batch) |-> format_submission(batch[i])]

get_hot_posts(batch) == format_all(batch)
get_new_posts(batch) == format_all(batch)
get_top_posts(batch) == format_all(batch)
search_posts(batch) == format_all(batch)

(***************************************************************************)
(* api_client.py: get_post_comments                                        *)
(***************************************************************************)
\* submission.comments.replace_more(limit=0): every MoreComments object is
\* removed from the forest, the comments keep their order.
IsNotMore(e) == e.t # "MoreComments"
replace_more(tree) == SelectSeq(tree, IsNotMore)

\* The listing the loop walks: replace_more runs only under `if limit:`.
comments_list(tree, limit) ==
  IF Truthy(limit) THEN replace_more(tree) ELSE tree

\* The loop with `>` in place of `>=`.
RECURSIVE comments_loop_gt(_, _, _, _)
comments_loop_gt(listing, limit, i, comments) ==
  IF i > Len(listing) THEN [comments |-> comments, consumed |-> Len(listing)]
  ELSE IF hasattr(listing[i], "body")
       THEN LET cs == Append(comments, format_comment(listing[i]))
            IN IF Truthy(limit) /\ Len(cs) > limit.v
               THEN [comments |-> cs, consumed |-> i]
               ELSE comments_loop_gt(listing, limit, i + 1, cs)
       ELSE comments_loop_gt(listing, limit, i + 1, comments)

\* The for loop of get_post_comments from entry i on: the comments collected
\* and the number of entries of the listing it has taken when it ends.
RECURSIVE comments_loop(_, _, _, _)
comments_loop(listing, limit, i, comments) ==
  IF i > Len(listing) THEN [comments |-> comments, consumed |-> Len(listing)]
  ELSE IF hasattr(listing[i], "body")
       THEN LET cs == Append(comments, format_comment(listing[i]))
            IN IF Truthy(limit) /\ Len(cs) >= limit.v
               THEN [comments |-> cs, consumed |-> i]
               ELSE comments_loop(listing, limit, i + 1, cs)
       ELSE comments_loop(listing, limit, i + 1, comments)

\* RedditClient.get_post_comments: tree is submission.comments as fetched.
get_post_comments(tree, limit) ==
  comments_loop(comments_list(tree, limit), limit, 1, <<>>)

(***************************************************************************)
(* api_client.py: get_subreddit_info                                       *)
(***************************************************************************)
get_subreddit_info(subreddit) ==
  [name |-> subreddit.display_name,
   title |-> subreddit.title,
   subscribers |-> subreddit.subscribers,
   active_users |-> subreddit.active_user_count,
   is_over18 |-> subreddit.over18]

(***************************************************************************)
(* api_client.py: get_subreddit_stats.  Python's `/` on two ints is the    *)
(* IEEE-754 double nearest to the quotient (ties to even).  A double is    *)
(* kept as its sign, the exponent of its leading bit and its 53 mantissa   *)
(* bits, most significant first: value = mant * 2^(exp - 52).              *)
(***************************************************************************)
Abs(x) == IF x < 0 THEN -x ELSE x

MantBits == 53

Zeros(k) == [i \in 1..k |-> 0]

\* The binary digits of n >= 0, most significant first (none for 0).
RECURSIVE BitsOf(_)
BitsOf(n) == IF n = 0 THEN <<>> ELSE Append(BitsOf(n \div 2), n % 2)

\* acc followed by the next k binary digits of r / b (0 <= r < b), and the
\* remainder left after them.
RECURSIVE FracBits(_, _, _, _)
FracBits(r, b, k, acc) ==
  IF k = 0 THEN [bits |-> acc, rem |-> r]
  ELSE IF 2 * r >= b
       THEN FracBits(2 * r - b, b, k - 1, Append(acc, 1))
       ELSE FracBits(2 * r, b, k - 1, Append(acc, 0))

\* The exponent of the first 1 in the binary expansion of r / b
\* (0 < r < b), searched from exponent e down, and the remainder after it.
RECURSIVE LeadingBit(_, _, _)
LeadingBit(r, b, e) ==
  IF 2 * r >= b THEN [exp |-> e, rem |-> 2 * r - b]
  ELSE LeadingBit(2 * r, b, e - 1)

\* bits + 1 on the same number of bits (all ones wrap to all zeros).
RECURSIVE Increment(_)
Increment(bits) ==
  IF bits = <<>> THEN <<>>
  ELSE LET n == Len(bits)
       IN IF bits[n] = 0 THEN [bits EXCEPT ![n] = 1]
          ELSE Append(Increment(SubSeq(bits, 1, n - 1)), 0)

FloatZero(neg) ==
  [t |-> "float", neg |-> neg, exp |-> 0, mant |-> Zeros(MantBits)]

\* The double with the given mantissa, rounded up by one unit in the last
\* place when `up`.
MakeFloat(neg, exp, mant, up) ==
  IF ~up THEN [t |-> "float", neg |-> neg, exp |-> exp, mant |-> mant]
  ELSE LET inc == Increment(mant)
       IN IF inc[1] = 1
          THEN [t |-> "float", neg |-> neg, exp |-> exp, mant |-> inc]
          ELSE [t |-> "float", neg |-> neg, exp |-> exp + 1,
                mant |-> <<1>> \o Zeros(MantBits - 1)]

\* float(i)
IntToDouble(i) ==
  IF i = 0 THEN FloatZero(FALSE)
  ELSE LET ib == BitsOf(Abs(i))
       IN MakeFloat(i < 0, Len(ib) - 1, ib \o Zeros(MantBits - Len(ib)), FALSE)

\* The double nearest to a / b (b # 0), ties to even.
DivToDouble(a, b) ==
  LET A == Abs(a)
      B == Abs(b)
      neg == (a < 0) # (b < 0)
      q == A \div B
      r == A % B
  IN IF A = 0 THEN FloatZero(neg)
     ELSE IF q > 0
     THEN LET ib == BitsOf(q)
              fb == FracBits(r, B, MantBits - Len(ib), ib)
          IN MakeFloat(neg, Len(ib) - 1, fb.bits,
                       2 * fb.rem > B \/ (2 * fb.rem = B /\ fb.bits[MantBits] = 1))
     ELSE LET lead == LeadingBit(r, B, -1)
              fb == FracBits(lead.rem, B, MantBits - 1, <<1>>)
          IN MakeFloat(neg, lead.exp, fb.bits,
                       2 * fb.rem > B \/ (2 * fb.rem = B /\ fb.bits[MantBits] = 1))

\* a // b, as a float
FloorDiv(a, b) ==
  IF b = 0 THEN Raise("ZeroDivisionError") ELSE Return(IntToDouble(a \div b))

\* a / b
TrueDiv(a, b) ==
  IF b = 0 THEN Raise("ZeroDivisionError") ELSE Return(DivToDouble(a, b))

\* sum(post[field] for post in posts)
RECURSIVE SumField(_, _)
SumField(posts, field) ==
  IF posts = <<>> THEN 0
  ELSE Head(posts)[field] + SumField(Tail(posts), field)

\* The arithmetic of get_subreddit_stats with `//` in place of `/`.
stats_of_floordiv(posts, now) ==
  LET total_score == SumField(posts, "score")
      total_comments == SumField(posts, "num_comments")
      n == Len(posts)
      avg_s == FloorDiv(total_score, n)
      avg_c == FloorDiv(total_comments, n)
  IN IF avg_s.raised
     THEN [raised |-> TRUE, error |-> avg_s.error, divisors |-> <<n>>]
     ELSE [raised |-> FALSE, divisors |-> <<n, n>>,
           value |-> [total_posts |-> n,
                      total_score |-> total_score,
                      total_comments |-> total_comments,
                      average_score |-> avg_s.value,
                      average_comments |-> avg_c.value,
                      analyzed_time |-> now]]

\* The arithmetic of get_subreddit_stats past the empty-batch guard; the
\* divisors are the right operands of the divisions it performs.
stats_of(posts, now) ==
  LET total_score == SumField(posts, "score")
      total_comments == SumField(posts, "num_comments")
      n == Len(posts)
      avg_s == TrueDiv(total_score, n)
      avg_c == TrueDiv(total_comments, n)
  IN IF avg_s.raised
     THEN [raised |-> TRUE, error |-> avg_s.error, divisors |-> <<n>>]
     ELSE [raised |-> FALSE, divisors |-> <<n, n>>,
           value |-> [total_posts |-> n,
                      total_score |-> total_score,
                      total_comments |-> total_comments,
                      average_score |-> avg_s.value,
                      average_comments |-> avg_c.value,
                      analyzed_time |-> now]]

\* get_subreddit_stats without the `if not posts` guard.
get_subreddit_stats_noguard(batch, now) == stats_of(get_hot_posts(batch), now)

\* RedditClient.get_subreddit_stats: batch is what hot(limit) yields.
get_subreddit_stats(batch, now) ==
  LET posts == get_hot_posts(batch)
  IN IF posts = <<>>
     THEN [raised |-> FALSE, divisors |-> <<>>,
           value |-> [total_posts |-> 0,
                      total_score |-> 0,
                      total_comments |-> 0,
                      average_score |-> PyInt(0),
                      average_comments |-> PyInt(0)]]
     ELSE stats_of(posts, now)

(***************************************************************************)
(* examples/*.py: what each script does with what it has fetched.  Text    *)
(* the scripts cut and splice (typed input, file names) is a sequence of   *)
(* Unicode code points, so that every character str.strip() removes and    *)
(* the encoded length of a file name can be told.  A file is its path and  *)
(* the value json.dump serialised.                                         *)
(***************************************************************************)
\* "python"
PYTHON == <<112, 121, 116, 104, 111, 110>>
\* "machine learning"
MACHINE_LEARNING ==
  <<109, 97, 99, 104, 105, 110, 101, 32, 108, 101, 97, 114, 110, 105, 110, 103>>
\* "_hot_posts.json"
HOT_SUFFIX ==
  <<95, 104, 111, 116, 95, 112, 111, 115, 116, 115, 46, 106, 115, 111, 110>>
\* "_search_"
SEARCH_INFIX == <<95, 115, 101, 97, 114, 99, 104, 95>>
\* ".json"
JSON_SUFFIX == <<46, 106, 115, 111, 110>>
\* "_stats.json"
STATS_SUFFIX == <<95, 115, 116, 97, 116, 115, 46, 106, 115, 111, 110>>

MaxNameLen == 64  \* longest text typed at a prompt

\* input(prompt) raised: standard input is at its end.
EOF == Raise("EOFError")

\* Texts typed for the subreddit name: "\f" (blank only), "\ra/b\xa0" (text
\* with a path separator, in blanks), "\0" (a null character, from piped
\* input), U+D800 (a lone surrogate, which no file name can hold), and
\* MaxNameLen times U+1F600 (a character of four bytes: a name of 256
\* bytes).
NameTexts ==
  { <<12>>, <<13, 97, 47, 98, 160>>, <<0>>, <<55296>>,
    [i \in 1..MaxNameLen |-> 128512] }

\* For the query: "" and " a b\r" (blanks around, a blank inside).
QueryTexts == { <<>>, <<32, 97, 32, 98, 13>> }

\* What input() does at each prompt: it returns a text, or raises.
NameInputs == { Return(text) : text \in NameTexts } \cup {EOF}
QueryInputs == { Return(text) : text \in QueryTexts } \cup {EOF}

\* The characters str.strip() removes: those str.isspace() accepts.
\* \t \n \v \f \r, the separators U+001C..U+001F, space, U+0085, U+00A0,
\* U+1680, U+2000..U+200A, U+2028, U+2029, U+202F, U+205F, U+3000.
Whitespace ==
  (9..13) \cup (28..31) \cup {32, 133, 160, 5760} \cup (8192..8202)
    \cup {8232, 8233, 8239, 8287, 12288}

\* The positions of a text whose character is not white space.
non_blank(s) == { i \in 1..Len(s) : s[i] \notin Whitespace }

\* str.lstrip(): the text from its first character that is not white space.
lstrip(s) ==
  IF non_blank(s) = {} THEN <<>>
  ELSE SubSeq(s, CHOOSE i \in non_blank(s) : \A j \in non_blank(s) : i <= j,
              Len(s))

\* str.rstrip(): the text up to its last character that is not white space.
rstrip(s) ==
  IF non_blank(s) = {} THEN <<>>
  ELSE SubSeq(s, 1, CHOOSE i \in non_blank(s) : \A j \in non_blank(s) : j <= i)

\* str.strip()
strip(s) == rstrip(lstrip(s))

\* str.replace(old, new) for single characters
replace(s, old, new) == [i \in 1..Len(s) |-> IF s[i] = old THEN new ELSE s[i]]

\* input(...).strip() or default
input_or(typed, default) ==
  LET text == strip(typed) IN IF text = <<>> THEN default ELSE text

\* d[key] on a dictionary
getitem(d, key) == IF key \in DOMAIN d THEN Return(d[key]) ELSE Raise("KeyError")

\* Limits of the platform open() runs on (Linux): the bytes of one name of a
\* path, and of a whole path with its terminating null.
NAME_MAX == 255
PATH_MAX == 4096

\* os.fsencode can encode a character: every one but a surrogate, and of
\* the surrogates those that stand for an undecodable input byte
\* (U+DC80..U+DCFF, surrogateescape).
encodable(c) == c \notin 55296..57343 \/ c \in 56448..56575

\* The bytes os.fsencode gives a character it can encode: UTF-8, and one
\* byte for a surrogate U+DC80..U+DCFF.
utf8_len(c) ==
  IF c < 128 \/ c \in 56448..56575 THEN 1
  ELSE IF c < 2048 THEN 2
  ELSE IF c < 65536 THEN 3
  ELSE 4

\* The bytes of the characters i..j of a path: one each, and one more for
\* each character of two bytes or more, of three or more, of four.
fsencode_len(path, i, j) ==
  (j + 1 - i)
    + Cardinality({ k \in i..j : utf8_len(path[k]) >= 2 })
    + Cardinality({ k \in i..j : utf8_len(path[k]) >= 3 })
    + Cardinality({ k \in i..j : utf8_len(path[k]) >= 4 })

\* The position after the name that starts at character i: that of the next
\* separator (47 is "/"), or past the end.
name_end(path, i) ==
  LET seps == { k \in i..Len(path) : path[k] = 47 }
  IN IF seps = {} THEN Len(path) + 1
     ELSE CHOOSE k \in seps : \A m \in seps : k <= m

\* Some name between the separators of a path is longer than NAME_MAX bytes.
name_too_long(path) ==
  \E i \in 1..Len(path) :
    /\ path[i] # 47
    /\ i = 1 \/ path[i - 1] = 47
    /\ fsencode_len(path, i, name_end(path, i) - 1) > NAME_MAX

\* open(path, 'w', encoding='utf-8').  Python refuses a path it cannot
\* encode (UnicodeEncodeError), then one with a null character
\* (ValueError); the system refuses a name or a path too long (OSError,
\* "File name too long").  Whether any other path opens is up to the file
\* system (fs_ok): the directory the path points into is there and can be
\* written, the path is no directory, the disk takes a new file; if not,
\* open raises an OSError.
open_w(path, fs_ok) ==
  IF \E i \in 1..Len(path) : ~encodable(path[i])
  THEN Raise("UnicodeEncodeError")
  ELSE IF \E i \in 1..Len(path) : path[i] = 0
  THEN Raise("ValueError")
  ELSE IF fsencode_len(path, 1, Len(path)) >= PATH_MAX \/ name_too_long(path)
  THEN Raise("OSError")
  ELSE IF ~fs_ok
  THEN Raise("OSError")
  ELSE Return(path)

\* Standard output at a print: its encoding has the characters of the text
\* printed (encodes), and what is written to it gets through (writable: it
\* is no closed pipe, no full device).
Stdouts == [encodes : BOOLEAN, writable : BOOLEAN]

\* What the try block of a script runs on, beyond the script's reach:
\* standard output at the summary prints (out), the file system at open
\* (fs_ok) and while json.dump writes (dump_ok), standard output at the
\* last print (saved_ok) and at the print of the except branch (error_ok).
\* json.dump runs only after open has returned and the last print only
\* after json.dump has: of the environments that differ in a step that is
\* not reached, one is listed.
Systems ==
  { sys \in [out : Stdouts, fs_ok : BOOLEAN, dump_ok : BOOLEAN,
             saved_ok : BOOLEAN, error_ok : BOOLEAN] :
      /\ ~sys.fs_ok => sys.dump_ok /\ sys.saved_ok
      /\ ~sys.dump_ok => sys.saved_ok }

\* print(text): the text is encoded, which fails on a character beyond
\* ASCII the encoding of standard output lacks; then it is written.
print_text(text, out) ==
  IF ~out.encodes /\ \E i \in 1..Len(text) : text[i] >= 128
  THEN Raise("UnicodeEncodeError")
  ELSE IF ~out.writable
  THEN Raise("OSError")
  ELSE Return(text)

\* for i, post in enumerate(posts, 1): print(...): the title of each post
\* goes to standard output, then its author, numbers and URL (ASCII).  The
\* loop ends at the first print that raises.
display_posts(posts, out) ==
  LET bad == { i \in 1..Len(posts) : print_text(posts[i].title, out).raised }
  IN IF bad = {} THEN Return(posts)
     ELSE print_text(posts[CHOOSE i \in bad : \A j \in bad : i <= j].title,
                     out)

\* The subreddit summary of the stats script: a heading, the title, then
\* the two counts, formatted with `:,`, which None does not support.
display_info(inf, out) ==
  IF ~out.writable THEN Raise("OSError")
  ELSE IF print_text(inf.title, out).raised THEN Raise("UnicodeEncodeError")
  ELSE IF inf.subscribers = PyNone \/ inf.active_users = PyNone
  THEN Raise("TypeError")
  ELSE Return(inf)

\* The statistics summary of the stats script: a heading, numbers, and
\* stats['analyzed_time'].
display_stats(stats, out) ==
  IF ~out.writable THEN Raise("OSError")
  ELSE IF getitem(stats, "analyzed_time").raised THEN Raise("KeyError")
  ELSE Return(stats)

\* A file: its path, the value json.dump serialised into it, and whether
\* json.dump came to its end.
File(path, content, complete) ==
  [name |-> path, content |-> content, complete |-> complete]

\* What a script has done when its try block is left: the file it created,
\* the status lines it printed, the statement that raised, and how main()
\* ended ("done": it returned; "crashed": an exception left it).
Outcome(output, lines, raised, end) ==
  [output |-> output, lines |-> lines, raised |-> raised, pc |-> end]

\* except Exception as e: print(f"Error ...: {e}").  When this print raises,
\* nothing catches it.
except_print(output, failure, raised, sys) ==
  IF sys.error_ok THEN Outcome(output, <<failure>>, raised, "done")
  ELSE Outcome(output, <<>>, raised, "crashed")

\* with open(output_file, 'w') as f: json.dump(content, f); print("Results
\* saved ..."), inside the try block whose `except Exception` prints
\* `failure`.  (p is the path, built once.)
dump_to(path, content, sys, failure) ==
  IF \E p \in {path} : open_w(p, sys.fs_ok).raised
  THEN except_print(PyNone, failure, "open", sys)
  ELSE IF ~sys.dump_ok
  THEN except_print(File(path, content, FALSE), failure, "dump", sys)
  ELSE IF ~sys.saved_ok
  THEN except_print(File(path, content, TRUE), failure, "print", sys)
  ELSE Outcome(File(path, content, TRUE), <<"Results saved">>, "no", "done")

\* f"{subreddit_name}_hot_posts.json"
hot_path(subreddit_name) == subreddit_name \o HOT_SUFFIX

\* f"{subreddit_name}_search_{query.replace(' ', '_')}.json"
search_path(subreddit_name, query) ==
  subreddit_name \o SEARCH_INFIX \o replace(query, 32, 95) \o JSON_SUFFIX

\* f"{subreddit_name}_stats.json"
stats_path(subreddit_name) == subreddit_name \o STATS_SUFFIX

\* fetch_hot_posts.main after get_hot_posts has returned
hot_report(subreddit_name, posts, sys) ==
  IF display_posts(posts, sys.out).raised
  THEN except_print(PyNone, "Error fetching posts", "display", sys)
  ELSE dump_to(hot_path(subreddit_name), posts, sys, "Error fetching posts")

\* search_posts.main without the `if not posts: return`.
search_report_always(subreddit_name, query, posts, sys) ==
  IF display_posts(posts, sys.out).raised
  THEN except_print(PyNone, "Error searching posts", "display", sys)
  ELSE dump_to(search_path(subreddit_name, query), posts, sys,
               "Error searching posts")

\* search_posts.main after search_posts has returned.  The line printed on
\* an empty result is ASCII: its print raises only if standard output
\* cannot be written.
search_report(subreddit_name, query, posts, sys) ==
  IF posts = <<>>
  THEN IF ~sys.out.writable
       THEN except_print(PyNone, "Error searching posts", "display", sys)
       ELSE Outcome(PyNone, <<"No posts found">>, "no", "done")
  ELSE IF display_posts(posts, sys.out).raised
  THEN except_print(PyNone, "Error searching posts", "display", sys)
  ELSE dump_to(search_path(subreddit_name, query), posts, sys,
               "Error searching posts")

\* fetch_subreddit_stats.main after get_subreddit_stats has returned: the
\* summary reads stats['analyzed_time'] before the file is opened, and a
\* KeyError is caught by the script's `except Exception`.
stats_report(subreddit_name, inf, stats, sys) ==
  IF display_stats(stats, sys.out).raised
  THEN except_print(PyNone, "Error analyzing subreddit", "display", sys)
  ELSE dump_to(stats_path(subreddit_name),
               [subreddit_info |-> inf, statistics |-> stats],
               sys, "Error analyzing subreddit")

\* The parameters each script fixes or reads before its try block, and the
\* line it prints about them.  typed and q are what input() does at the two
\* prompts once it has written its prompt to standard output.  Nothing
\* catches an exception here: it ends main().
script_args(m, typed, q, out) ==
  CASE m = "fetch_hot_posts" ->
         IF print_text(PYTHON, out).raised THEN print_text(PYTHON, out)
         ELSE Return([subreddit_name |-> PYTHON])
    [] m = "search_posts" ->
         IF ~out.writable THEN Raise("OSError")
         ELSE IF typed.raised THEN typed
         ELSE IF q.raised THEN q
         ELSE LET subreddit_name == input_or(typed.value, PYTHON)
                  query == input_or(q.value, MACHINE_LEARNING)
              IN IF print_text(subreddit_name \o query, out).raised
                 THEN print_text(subreddit_name \o query, out)
                 ELSE Return([subreddit_name |-> subreddit_name,
                              query |-> query])
    [] m = "fetch_subreddit_stats" ->
         IF ~out.writable THEN Raise("OSError")
         ELSE IF typed.raised THEN typed
         ELSE LET subreddit_name == input_or(typed.value, PYTHON)
              IN IF print_text(subreddit_name, out).raised
                 THEN print_text(subreddit_name, out)
                 ELSE Return([subreddit_name |-> subreddit_name])
    [] OTHER -> Return(PyNone)

\* except ValueError as e: print(f"Configuration error: {e}"), four more
\* prints and return, outside any try block: the status lines printed and
\* how main() ends, given whether the first print and the later ones get
\* through.
config_error(first_ok, rest_ok) ==
  IF ~first_ok THEN [lines |-> <<>>, pc |-> "crashed"]
  ELSE IF ~rest_ok THEN [lines |-> <<"Configuration error">>, pc |-> "crashed"]
  ELSE [lines |-> <<"Configuration error">>, pc |-> "done"]

(***************************************************************************)
(* The state machine.                                                      *)
(***************************************************************************)
Scripts == {"fetch_hot_posts", "search_posts", "fetch_subreddit_stats"}
Modes == Scripts \cup {"library"}

\* A variable is unset (PyNone), set to the empty string, or set to a value.
EnvValues(name) ==
  IF name = "REDDIT_USER_AGENT" THEN {PyNone, PyStr("x")}
  ELSE {PyNone, PyStr(""), PyStr("x")}

Environments ==
  { e \in [EnvNames -> {PyNone, PyStr(""), PyStr("x")}] :
      \A n \in EnvNames : e[n] \in EnvValues(n) }

Init ==
  /\ env \in Environments
  /\ mode \in Modes
  /\ pc = "start"
  /\ config = PyNone
  /\ client = PyNone
  /\ args = PyNone
  /\ called = FALSE
  /\ info = PyNone
  /\ last = PyNone
  /\ fetch_raised = FALSE
  /\ report_raised = "no"
  /\ output_file = PyNone
  /\ printed = <<>>

\* config = Config.from_env() inside try/except ValueError (all callers)
LoadConfig ==
  /\ pc = "start"
  /\ LET r == from_env(env)
     IN IF r.raised
        THEN \E first_ok \in BOOLEAN, rest_ok \in BOOLEAN :
               /\ printed' = printed \o config_error(first_ok, rest_ok).lines
               /\ pc' = config_error(first_ok, rest_ok).pc
               /\ config' = config
        ELSE /\ config' = r.value
             /\ pc' = "configured"
             /\ printed' = printed
  /\ UNCHANGED <<env, mode, client, args, called, info, last, fetch_raised,
                 report_raised, output_file>>

\* client = RedditClient(config), then the script's parameters.  An
\* exception of input() or of the print that follows is not caught: main()
\* ends with a traceback, the client built and nothing fetched.
Construct ==
  /\ pc = "configured"
  /\ client' = RedditClient_init(config)
  /\ \E typed \in NameInputs, q \in QueryInputs, out \in Stdouts :
       \E r \in { script_args(mode, typed, q, out) } :
         IF r.raised
         THEN args' = args /\ pc' = "crashed"
         ELSE args' = r.value /\ pc' = "constructed"
  /\ UNCHANGED <<env, mode, config, called, info, last, fetch_raised,
                 report_raised, output_file, printed>>

\* A call record: the operation, what the library yielded, what came back.
Call(op, input, outcome) == [op |-> op, input |-> input] @@ outcome

\* The library raised (network, HTTP, not found): nothing comes back.
Failed(op) == [op |-> op] @@ Raise("PrawException")

\* except Exception as e: print(f"Error ...: {e}"): the line is printed and
\* main() returns, or the print raises (standard output cannot be written,
\* or lacks a character of the exception's message) and main() ends with a
\* traceback.
Handler(message) ==
  \E error_ok \in BOOLEAN :
    /\ printed' = IF error_ok THEN Append(printed, message) ELSE printed
    /\ pc' = IF error_ok THEN "done" ELSE "crashed"

\* A fetch inside a script's try block raised: except Exception prints it.
ScriptFetchRaises(op, message) ==
  /\ last' = Failed(op)
  /\ called' = TRUE
  /\ fetch_raised' = TRUE
  /\ Handler(message)
  /\ UNCHANGED <<env, mode, config, client, args, info, report_raised,
                 output_file>>

\* fetch_hot_posts.main: posts = client.get_hot_posts(...)
HotFetch ==
  /\ mode = "fetch_hot_posts" /\ pc = "constructed"
  /\ \/ ScriptFetchRaises("get_hot_posts", "Error fetching posts")
     \/ \E batch \in Batches :
          /\ last' = Call("get_hot_posts", batch, Return(get_hot_posts(batch)))
          /\ called' = TRUE
          /\ pc' = "fetched"
          /\ UNCHANGED <<env, mode, config, client, args, info, fetch_raised,
                         report_raised, output_file, printed>>

\* fetch_hot_posts.main: display, open, json.dump
HotReport ==
  /\ mode = "fetch_hot_posts" /\ pc = "fetched"
  /\ \E sys \in Systems :
       \E r \in { hot_report(args.subreddit_name, last.value, sys) } :
         /\ output_file' = r.output
         /\ printed' = printed \o r.lines
         /\ report_raised' = r.raised
         /\ pc' = r.pc
  /\ UNCHANGED <<env, mode, config, client, args, called, info, last,
                 fetch_raised>>

\* search_posts.main: posts = client.search_posts(...)
SearchFetch ==
  /\ mode = "search_posts" /\ pc = "constructed"
  /\ \/ ScriptFetchRaises("search_posts", "Error searching posts")
     \/ \E batch \in Batches :
          /\ last' = Call("search_posts", batch, Return(search_posts(batch)))
          /\ called' = TRUE
          /\ pc' = "fetched"
          /\ UNCHANGED <<env, mode, config, client, args, info, fetch_raised,
                         report_raised, output_file, printed>>

\* search_posts.main: the empty check, display, open, json.dump
SearchReport ==
  /\ mode = "search_posts" /\ pc = "fetched"
  /\ \E sys \in Systems :
       \E r \in { search_report(args.subreddit_name, args.query,
                              last.value, sys) } :
         /\ output_file' = r.output
         /\ printed' = printed \o r.lines
         /\ report_raised' = r.raised
         /\ pc' = r.pc
  /\ UNCHANGED <<env, mode, config, client, args, called, info, last,
                 fetch_raised>>

\* fetch_subreddit_stats.main: info = client.get_subreddit_info(...) and
\* the subreddit summary
StatsFetchInfo ==
  /\ mode = "fetch_subreddit_stats" /\ pc = "constructed"
  /\ \/ ScriptFetchRaises("get_subreddit_info", "Error analyzing subreddit")
     \/ \E sub \in Subreddits, out \in Stdouts :
          /\ info' = get_subreddit_info(sub)
          /\ called' = TRUE
          /\ IF display_info(get_subreddit_info(sub), out).raised
             THEN /\ Handler("Error analyzing subreddit")
                  /\ report_raised' = "display"
             ELSE /\ printed' = printed
                  /\ report_raised' = report_raised
                  /\ pc' = "info_fetched"
          /\ UNCHANGED <<env, mode, config, client, args, last, fetch_raised,
                         output_file>>

\* fetch_subreddit_stats.main: stats = client.get_subreddit_stats(...)
StatsFetchStats ==
  /\ mode = "fetch_subreddit_stats" /\ pc = "info_fetched"
  /\ \/ ScriptFetchRaises("get_subreddit_stats", "Error analyzing subreddit")
     \/ \E batch \in Batches, now \in Times :
          LET r == get_subreddit_stats(batch, now)
          IN /\ last' = Call("get_subreddit_stats", batch, r)
             /\ called' = TRUE
             /\ IF r.raised
                THEN Handler("Error analyzing subreddit")
                ELSE /\ printed' = printed
                     /\ pc' = "fetched"
             /\ UNCHANGED <<env, mode, config, client, args, info,
                            fetch_raised, report_raised, output_file>>

\* fetch_subreddit_stats.main: the statistics summary, open, json.dump
StatsReport ==
  /\ mode = "fetch_subreddit_stats" /\ pc = "fetched"
  /\ \E sys \in Systems :
       \E r \in { stats_report(args.subreddit_name, info, last.value, sys) } :
         /\ output_file' = r.output
         /\ printed' = printed \o r.lines
         /\ report_raised' = r.raised
         /\ pc' = r.pc
  /\ UNCHANGED <<env, mode, config, client, args, called, info, last,
                 fetch_raised>>

(***************************************************************************)
(* A library user: any public method, any number of times.  The caller     *)
(* holds the outcome of a call until it goes on to the next one.           *)
(***************************************************************************)
LibraryCall(rec) ==
  /\ last' = rec
  /\ called' = TRUE
  /\ pc' = "returned"
  /\ UNCHANGED <<env, mode, config, client, args, info, fetch_raised,
                 report_raised, output_file, printed>>

CanCall == mode = "library" /\ pc = "constructed"

CallGetHotPosts ==
  /\ CanCall
  /\ \/ LibraryCall(Failed("get_hot_posts"))
     \/ \E batch \in Batches :
          LibraryCall(Call("get_hot_posts", batch, Return(get_hot_posts(batch))))

CallGetNewPosts ==
  /\ CanCall
  /\ \/ LibraryCall(Failed("get_new_posts"))
     \/ \E batch \in Batches :
          LibraryCall(Call("get_new_posts", batch, Return(get_new_posts(batch))))

CallGetTopPosts ==
  /\ CanCall
  /\ \/ LibraryCall(Failed("get_top_posts"))
     \/ \E batch \in Batches :
          LibraryCall(Call("get_top_posts", batch, Return(get_top_posts(batch))))

CallSearchPosts ==
  /\ CanCall
  /\ \/ LibraryCall(Failed("search_posts"))
     \/ \E batch \in Batches :
          LibraryCall(Call("search_posts", batch, Return(search_posts(batch))))

CallGetPostComments ==
  /\ CanCall
  /\ \/ LibraryCall(Failed("get_post_comments"))
     \/ \E tree \in Listings, limit \in Limits :
          LET r == get_post_comments(tree, limit)
          IN LibraryCall([op |-> "get_post_comments", input |-> tree,
                          limit |-> limit, raised |-> FALSE,
                          listing |-> comments_list(tree, limit),
                          value |-> r.comments, consumed |-> r.consumed])

CallGetSubredditInfo ==
  /\ CanCall
  /\ \/ LibraryCall(Failed("get_subreddit_info"))
     \/ \E sub \in Subreddits :
          LibraryCall(Call("get_subreddit_info", sub,
                           Return(get_subreddit_info(sub))))

CallGetSubredditStats ==
  /\ CanCall
  /\ \/ LibraryCall(Failed("get_subreddit_stats"))
     \/ \E batch \in Batches, now \in Times :
          LibraryCall(Call("get_subreddit_stats", batch,
                           get_subreddit_stats(batch, now)))

\* The library user drops the outcome and is ready for the next call.
Continue ==
  /\ mode = "library" /\ pc = "returned"
  /\ last' = PyNone
  /\ pc' = "constructed"
  /\ UNCHANGED <<env, mode, config, client, args, called, info, fetch_raised,
                 report_raised, output_file, printed>>

\* The library user stops calling.
Finish ==
  /\ mode = "library" /\ pc = "constructed"
  /\ pc' = "done"
  /\ UNCHANGED <<env, mode, config, client, args, called, info, last,
                 fetch_raised, report_raised, output_file, printed>>

Next ==
  \/ LoadConfig
  \/ Construct
  \/ HotFetch
  \/ HotReport
  \/ SearchFetch
  \/ SearchReport
  \/ StatsFetchInfo
  \/ StatsFetchStats
  \/ StatsReport
  \/ CallGetHotPosts
  \/ CallGetNewPosts
  \/ CallGetTopPosts
  \/ CallSearchPosts
  \/ CallGetPostComments
  \/ CallGetSubredditInfo
  \/ CallGetSubredditStats
  \/ Continue
  \/ Finish

Spec == Init /\ [][Next]_vars

(***************************************************************************)
(* get_subreddit_stats on longer batches: a library user with a client     *)
(* already constructed, and hot listings of up to MaxStatsBatch posts made *)
(* of a run of one submission followed by a run of another.                *)
(***************************************************************************)
MaxStatsBatch == 7

StatsScores == {-1, 2, 5}

StatsSubmissions ==
  [t : {"Submission"}, title : {TITLE_ASCII}, author : {PyNone},
   score : StatsScores,
   num_comments : CommentCounts]

StatsBatches ==
  UNION { UNION { { [i \in 1..n |-> IF i <= k THEN s1 ELSE s2] :
                      s1 \in StatsSubmissions, s2 \in StatsSubmissions } :
                  k \in 0..n } :
          n \in 0..MaxStatsBatch }

InitStats ==
  /\ env \in { e \in Environments :
                 ~from_env(e).raised /\ e["REDDIT_USER_AGENT"] = PyNone }
  /\ mode = "library"
  /\ pc = "constructed"
  /\ config = from_env(env).value
  /\ client = RedditClient_init(config)
  /\ args = PyNone
  /\ called = FALSE
  /\ info = PyNone
  /\ last = PyNone
  /\ fetch_raised = FALSE
  /\ report_raised = "no"
  /\ output_file = PyNone
  /\ printed = <<>>

CallStatsOnBatch ==
  /\ CanCall
  /\ \/ LibraryCall(Failed("get_subreddit_stats"))
     \/ \E batch \in StatsBatches, now \in Times :
          LibraryCall(Call("get_subreddit_stats", batch,
                           get_subreddit_stats(batch, now)))

NextStats ==
  \/ CallStatsOnBatch
  \/ Continue
  \/ Finish

SpecStats == InitStats /\ [][NextStats]_vars

(***************************************************************************)
(* Vocabulary of the properties, stated without the client's own helpers.  *)
(***************************************************************************)
\* A variable of the environment is missing: unset, or set to nothing.
Missing(name) == env[name] = PyNone \/ env[name] = PyStr("")

\* An optional value is present: it is a non-empty string.
Present(v) == v # PyNone /\ v # PyStr("")

CredentialsMissing ==
  Missing("REDDIT_CLIENT_ID") \/ Missing("REDDIT_CLIENT_SECRET")

\* The latest call is `op`, and the library answered it without raising.
LibraryRaised == last.raised /\ last.error = "PrawException"
Answered(op) == last # PyNone /\ last.op = op /\ ~LibraryRaised

PostOps == {"get_hot_posts", "get_new_posts", "get_top_posts", "search_posts"}

\* The real comments of a listing, in listing order.
IsReal(e) == e.t = "Comment"
RealComments(listing) == SelectSeq(listing, IsReal)

Min(a, b) == IF a < b THEN a ELSE b

Ids(seq) == [i \in 1..Len(seq) |-> seq[i].id]

\* The number of real comments among the first k entries of a listing.
RealsUpTo(listing, k) == Cardinality({ i \in 1..k : IsReal(listing[i]) })

\* The sum of a field over a batch, by index.
RECURSIVE SumUpTo(_, _, _)
SumUpTo(batch, field, k) ==
  IF k = 0 THEN 0 ELSE batch[k][field] + SumUpTo(batch, field, k - 1)

\* The author field a record should carry for a library author.
AuthorField(author) == IF author = PyNone THEN "[deleted]" ELSE author.name

\* A text holds a path separator "/"; a null character.
HasSeparator(text) == \E i \in 1..Len(text) : text[i] = 47
HasNul(text) == \E i \in 1..Len(text) : text[i] = 0

\* The path of the file the running script writes to.
OutputPath ==
  CASE mode = "fetch_hot_posts" -> hot_path(args.subreddit_name)
    [] mode = "search_posts" -> search_path(args.subreddit_name, args.query)
    [] mode = "fetch_subreddit_stats" -> stats_path(args.subreddit_name)

\* A path open() refuses whatever the file system holds: a character no
\* file name can hold (a surrogate outside U+DC80..U+DCFF), a null
\* character, or one file name of more than NAME_MAX bytes.
Refused(path) ==
  \/ \E i \in 1..Len(path) :
       path[i] \in (55296..56447) \cup (56576..57343)
  \/ HasNul(path)
  \/ ~HasSeparator(path) /\ fsencode_len(path, 1, Len(path)) > NAME_MAX

\* The script has written its file: created it and dumped all of the value.
Written == output_file # PyNone /\ output_file.complete

(***************************************************************************)
(* Arithmetic on doubles and on unbounded naturals (binary digits, least   *)
(* significant first), to state what an average is.                        *)
(***************************************************************************)
\* A sequence back to front.
Reverse(seq) == [i \in 1..Len(seq) |-> seq[Len(seq) + 1 - i]]

\* The digits of big * n + c.
RECURSIVE MulAdd(_, _, _)
MulAdd(big, n, c) ==
  IF big = <<>> THEN Reverse(BitsOf(c))
  ELSE LET d == Head(big) * n + c
       IN <<d % 2>> \o MulAdd(Tail(big), n, d \div 2)

\* Without high-order zeros.
RECURSIVE Trim(_)
Trim(big) ==
  IF big # <<>> /\ big[Len(big)] = 0 THEN Trim(SubSeq(big, 1, Len(big) - 1))
  ELSE big

\* x < y for trimmed digit sequences of equal length, from the top digit.
RECURSIVE LessFrom(_, _, _)
LessFrom(x, y, i) ==
  IF i = 0 THEN FALSE
  ELSE IF x[i] # y[i] THEN x[i] < y[i] ELSE LessFrom(x, y, i - 1)

BigLess(x, y) ==
  LET a == Trim(x)
      b == Trim(y)
  IN IF Len(a) # Len(b) THEN Len(a) < Len(b) ELSE LessFrom(a, b, Len(a))

BigEq(x, y) == Trim(x) = Trim(y)

\* f is the double nearest to a / n (n > 0), ties to even: with m the
\* mantissa as an integer, |a| * 2^(52 - exp) lies within n / 2 of m * n.
NearestDouble(f, a, n) ==
  IF a = 0 THEN f = FloatZero(FALSE)
  ELSE LET X == Zeros(53 - f.exp) \o Reverse(BitsOf(Abs(a)))
           Y == MulAdd(<<0>> \o Reverse(f.mant), n, 0)
           Xn == MulAdd(X, 1, n)
           Yn == MulAdd(Y, 1, n)
           even == f.mant[Len(f.mant)] = 0
       IN /\ f.t = "float"
          /\ f.neg = (a < 0)
          /\ Len(f.mant) = 53 /\ f.mant[1] = 1
          /\ BigLess(Y, Xn) \/ (BigEq(Y, Xn) /\ even)
          /\ BigLess(X, Yn) \/ (BigEq(X, Yn) /\ even)

\* f * n as Python computes it for a float f and an int n > 0: the double
\* nearest to the product.
FloatTimesInt(f, n) ==
  IF f.mant[1] = 0 THEN f
  ELSE LET P == Reverse(Trim(MulAdd(Reverse(f.mant), n, 0)))
           d == Len(P) - 53
           kept == SubSeq(P, 1, 53)
           half == d > 0 /\ P[54] = 1
           rest == \E i \in 55..Len(P) : P[i] = 1
       IN MakeFloat(f.neg, f.exp + d, kept,
                    half /\ (rest \/ kept[53] = 1))

\* f == i as Python compares a float with an int below 2^53.
FloatEqInt(f, i) == f = IntToDouble(i)

IsPowerOfTwo(n) == n \in {1, 2, 4, 8, 16}

(***************************************************************************)
(* C1: from_env raises whenever REDDIT_CLIENT_ID or REDDIT_CLIENT_SECRET   *)
(* is missing, whatever the other variables are, and returns a Config      *)
(* holding the environment's values otherwise; when it raises, the caller  *)
(* ends with no client constructed, no fetch call made and no output file  *)
(* written, and with the configuration error printed if standard output    *)
(* takes it (if not, the print ends main()).                               *)
(***************************************************************************)
Thm_C1 ==
  pc # "start" =>
    /\ CredentialsMissing =>
         /\ config = PyNone
         /\ client = PyNone
         /\ ~called
         /\ output_file = PyNone
         /\ pc \in {"done", "crashed"}
         /\ pc = "done" => printed = <<"Configuration error">>
         /\ pc = "crashed" => printed \in {<<>>, <<"Configuration error">>}
    /\ ~CredentialsMissing =>
         /\ config # PyNone
         /\ config.client_id = env["REDDIT_CLIENT_ID"]
         /\ config.client_secret = env["REDDIT_CLIENT_SECRET"]
         /\ config.username = env["REDDIT_USERNAME"]
         /\ config.password = env["REDDIT_PASSWORD"]
         /\ "Configuration error" \notin { printed[i] : i \in 1..Len(printed) }

Wit_C1 ==
  /\ mode = "search_posts" /\ pc = "done"
  /\ env["REDDIT_CLIENT_ID"] = PyStr("x")
  /\ env["REDDIT_CLIENT_SECRET"] = PyNone
  /\ env["REDDIT_USERNAME"] = PyStr("x")
  /\ env["REDDIT_PASSWORD"] = PyStr("x")
  /\ config = PyNone /\ client = PyNone /\ output_file = PyNone

(***************************************************************************)
(* C2: for every Config from_env returns, is_authenticated() is true iff   *)
(* both the username and the password are present, whatever the client id, *)
(* the secret and the user agent are; and the client opens its session     *)
(* with the username and password exactly when is_authenticated() is true. *)
(***************************************************************************)
Thm_C2 ==
  /\ config # PyNone =>
       is_authenticated(config) =
         (Present(env["REDDIT_USERNAME"]) /\ Present(env["REDDIT_PASSWORD"]))
  /\ client # PyNone =>
       IF is_authenticated(config)
       THEN /\ client.reddit.username = config.username
            /\ client.reddit.password = config.password
            /\ Present(client.reddit.username)
            /\ Present(client.reddit.password)
       ELSE /\ client.reddit.username = PyNone
            /\ client.reddit.password = PyNone

Wit_C2 ==
  /\ client # PyNone
  /\ env["REDDIT_USER_AGENT"] = PyNone
  /\ is_authenticated(config)
  /\ client.reddit.username = PyStr("x")
  /\ client.reddit.password = PyStr("x")

(***************************************************************************)
(* C3: for every comment listing and every positive limit L,               *)
(* get_post_comments returns no placeholder and exactly the first          *)
(* min(L, R) real comments in listing order (R = number of real comments); *)
(* the walk stops at the L-th real comment; with limit None every real     *)
(* comment is returned.                                                    *)
(***************************************************************************)
Thm_C3 ==
  (Answered("get_post_comments") /\ (last.limit = PyNone \/ last.limit.v > 0)) =>
    LET reals == RealComments(last.input)
        R == Len(reals)
        want == IF last.limit = PyNone THEN R ELSE Min(last.limit.v, R)
    IN /\ ~last.raised
       /\ \A i \in 1..Len(last.value) : hasattr(last.value[i], "body")
       /\ Ids(last.value) = Ids(SubSeq(reals, 1, want))
       /\ \A i \in 1..Len(last.value) : last.value[i].body = reals[i].body
       /\ RealsUpTo(last.listing, last.consumed) = want
       /\ IF last.limit # PyNone /\ R >= last.limit.v
          THEN IsReal(last.listing[last.consumed])
          ELSE last.consumed = Len(last.listing)

Wit_C3 ==
  /\ Answered("get_post_comments")
  /\ last.limit = PyInt(1)
  /\ Len(last.input) = 3
  /\ last.input[1] = MoreComments
  /\ Len(RealComments(last.input)) = 2
  /\ Len(last.value) = 1
  /\ last.value[1].id = last.input[2].id

(***************************************************************************)
(* C4: limit is the maximum number of comments get_post_comments returns:  *)
(* for every limit that is not None, limit 0 included, at most limit       *)
(* comments are returned.                                                  *)
(***************************************************************************)
Claim_C4 ==
  (Answered("get_post_comments") /\ last.limit # PyNone) =>
    Len(last.value) <= last.limit.v

(***************************************************************************)
(* C5: on an empty batch get_subreddit_stats returns total_posts,          *)
(* total_score, total_comments, average_score and average_comments all 0   *)
(* and performs no division; for no batch does it divide by zero.          *)
(***************************************************************************)
Thm_C5 ==
  Answered("get_subreddit_stats") =>
    /\ ~last.raised
    /\ \A i \in 1..Len(last.divisors) : last.divisors[i] # 0
    /\ last.input = <<>> =>
         /\ last.divisors = <<>>
         /\ last.value.total_posts = 0
         /\ last.value.total_score = 0
         /\ last.value.total_comments = 0
         /\ last.value.average_score = PyInt(0)
         /\ last.value.average_comments = PyInt(0)

Wit_C5 ==
  /\ mode = "fetch_subreddit_stats" /\ pc = "fetched"
  /\ Answered("get_subreddit_stats")
  /\ last.input = <<>>
  /\ last.value.total_posts = 0

(***************************************************************************)
(* C6 as stated: on a batch of N > 0 posts get_subreddit_stats returns     *)
(* total_posts = N, total_score and total_comments the sums of the posts'  *)
(* score and num_comments, and averages with average * N = total for both  *)
(* fields.                                                                 *)
(***************************************************************************)
Claim_C6 ==
  (Answered("get_subreddit_stats") /\ last.input # <<>>) =>
    LET N == Len(last.input)
        v == last.value
    IN /\ ~last.raised
       /\ v.total_posts = N
       /\ v.total_score = SumUpTo(last.input, "score", N)
       /\ v.total_comments = SumUpTo(last.input, "num_comments", N)
       /\ FloatEqInt(FloatTimesInt(v.average_score, N), v.total_score)
       /\ FloatEqInt(FloatTimesInt(v.average_comments, N), v.total_comments)

(***************************************************************************)
(* C6 amended: on a batch of N > 0 posts get_subreddit_stats returns       *)
(* total_posts = N, total_score and total_comments the sums of the posts'  *)
(* score and num_comments, and as averages the doubles nearest to          *)
(* total / N; average * N = total holds when N divides the total or N is a *)
(* power of two.                                                           *)
(***************************************************************************)
Thm_C6 ==
  (Answered("get_subreddit_stats") /\ last.input # <<>>) =>
    LET N == Len(last.input)
        v == last.value
    IN /\ ~last.raised
       /\ v.total_posts = N
       /\ v.total_score = SumUpTo(last.input, "score", N)
       /\ v.total_comments = SumUpTo(last.input, "num_comments", N)
       /\ NearestDouble(v.average_score, v.total_score, N)
       /\ NearestDouble(v.average_comments, v.total_comments, N)
       /\ (v.total_score % N = 0 \/ IsPowerOfTwo(N)) =>
            FloatEqInt(FloatTimesInt(v.average_score, N), v.total_score)
       /\ (v.total_comments % N = 0 \/ IsPowerOfTwo(N)) =>
            FloatEqInt(FloatTimesInt(v.average_comments, N), v.total_comments)

Wit_C6 ==
  /\ Answered("get_subreddit_stats")
  /\ Len(last.input) = 7
  /\ last.value.total_score = 29
  /\ last.value.average_score = DivToDouble(29, 7)
  /\ ~FloatEqInt(FloatTimesInt(last.value.average_score, 7), 29)

(***************************************************************************)
(* C7: every statistics record get_subreddit_stats returns, the one for    *)
(* the empty batch included, contains the analyzed_time timestamp.         *)
(***************************************************************************)
Claim_C7 ==
  (Answered("get_subreddit_stats") /\ ~last.raised) =>
    "analyzed_time" \in DOMAIN last.value

(***************************************************************************)
(* C8 as stated: each example script writes its output file in every run   *)
(* where configuration loads and no fetch raises, whatever was fetched.    *)
(***************************************************************************)
Claim_C8 ==
  (mode \in Scripts /\ pc = "done" /\ config # PyNone /\ ~fetch_raised) =>
    output_file # PyNone

(***************************************************************************)
(* C8 amended: in a run of a script where configuration loads and main()   *)
(* reaches its try block, the JSON file is written completely exactly when *)
(* no statement of the try block up to json.dump raises (a fetch, a        *)
(* summary print, open, json.dump) and, for the search script, the result  *)
(* is not empty.  A file is opened only after the script's fetches have    *)
(* returned, under the name the script builds from the subreddit name (and *)
(* query), and holds what was fetched.  No file is created when a fetch, a *)
(* summary print or open raises (open raises for a name with a null        *)
(* character, a character no file name can hold or more than 255 bytes,    *)
(* and when the file system refuses the path), nor when main() ends before *)
(* its try block (at a prompt or at the print after them), which is before *)
(* any fetch; when json.dump raises, the file is left incomplete.          *)
(***************************************************************************)
Thm_C8 ==
  /\ output_file # PyNone =>
       /\ mode \in Scripts /\ pc \in {"done", "crashed"}
       /\ config # PyNone /\ called /\ ~fetch_raised
       /\ last # PyNone /\ ~last.raised
       /\ report_raised \in {"no", "dump", "print"}
       /\ output_file.complete = (report_raised # "dump")
       /\ \A path \in {OutputPath} :
            output_file.name = path /\ ~Refused(path)
       /\ IF mode = "fetch_subreddit_stats"
          THEN /\ info # PyNone
               /\ output_file.content.subreddit_info = info
               /\ output_file.content.statistics = last.value
          ELSE output_file.content = last.value
       /\ mode = "search_posts" => last.value # <<>>
  /\ (mode \in Scripts /\ pc \in {"done", "crashed"} /\ args # PyNone) =>
       (Written = (/\ ~fetch_raised
                   /\ report_raised \in {"no", "print"}
                   /\ mode = "search_posts" => last.value # <<>>))
  /\ (fetch_raised \/ report_raised \in {"display", "open"}) =>
       /\ mode \in Scripts /\ pc \in {"done", "crashed"}
       /\ output_file = PyNone
  /\ (pc = "crashed" /\ args = PyNone) =>
       /\ ~called /\ output_file = PyNone

Wit_C8 ==
  /\ mode = "search_posts" /\ pc = "done"
  /\ config # PyNone /\ ~fetch_raised /\ report_raised = "no"
  /\ last.value = <<>>
  /\ output_file = PyNone
  /\ printed = <<"No posts found">>

(***************************************************************************)
(* C9: every record a fetch returns carries the author field "[deleted]"   *)
(* when the library object's author is null and the author's string form   *)
(* (its name) otherwise, for submissions and for comments.                 *)
(***************************************************************************)
Thm_C9 ==
  /\ (last # PyNone /\ last.op \in PostOps /\ ~LibraryRaised) =>
       /\ Len(last.value) = Len(last.input)
       /\ \A i \in 1..Len(last.value) :
            last.value[i].author = AuthorField(last.input[i].author)
  /\ Answered("get_post_comments") =>
       \A i \in 1..Len(last.value) :
         \E j \in 1..Len(last.input) :
           /\ IsReal(last.input[j])
           /\ last.input[j].id = last.value[i].id
           /\ last.value[i].author = AuthorField(last.input[j].author)

Wit_C9 ==
  /\ Answered("get_new_posts")
  /\ Len(last.value) = 2
  /\ last.input[1].author = PyNone
  /\ last.value[1].author = "[deleted]"
  /\ last.input[2].author = Redditor("alice")
  /\ last.value[2].author = "alice"

(***************************************************************************)
(* C10: once the client is constructed, with or without a username and     *)
(* password, its session is read-only and its config is the one loaded,    *)
(* and no client operation changes the client.                             *)
(***************************************************************************)
Thm_C10 ==
  /\ [](client # PyNone =>
          /\ client.reddit.read_only = TRUE
          /\ client.config = config
          /\ config = from_env(env).value)
  /\ [][client # PyNone => client' = client /\ config' = config]_vars

Wit_C10 ==
  /\ mode = "library" /\ pc = "returned"
  /\ is_authenticated(config)
  /\ client.reddit.username = PyStr("x")
  /\ client.reddit.read_only = TRUE
  /\ Answered("get_post_comments")

====
